---- MODULE Spec2Model ----
(***************************************************************************)
(* Model of k8s.io/component-base/metrics/prometheus/restclient/metrics.go *)
(* : five metric instruments, the package init that registers them and     *)
(* hands four adapters to the client library, and the adapters themselves. *)
(***************************************************************************)
EXTENDS Integers, Sequences, FiniteSets, TLC

\* ------------------------------------------------------------------ bounds
\* Ticks of a time.Duration per second (time.Second, scaled down).
Second == 1000
\* Adapter calls made in one behaviour of the sequential specification.
MaxCalls == 3
\* Adapter calls made in one behaviour of the concurrent specification.
MaxConcCalls == 3
\* Goroutines calling the adapters concurrently.
NumThreads == 2
\* Executions of the init body attempted in SpecReinit.
MaxInits == 2
\* Adapter calls made in one behaviour of SpecReinit.
MaxReinitCalls == 2

\* ------------------------------------------------------------------ inputs
Minute == 60 * Second

\* Durations: negative with a fraction, zero, positive with a fraction, 5 min.
Durations == { -(Second + Second \div 2), 0, 2 * Second + Second \div 4, 5 * Minute }

\* Latencies: elapsed times of requests.
Latencies == { 0, 2 * Second + Second \div 4, 5 * Minute }

Verbs == {"GET", "POST"}

\* url.URL values (the fields String() reads).
URLs ==
  { [Scheme |-> "https", Host |-> "api.example.com", Path |-> "/api/v1/pods", RawQuery |-> ""],
    [Scheme |-> "https", Host |-> "api.example.com", Path |-> "/api/v1/pods", RawQuery |-> "watch=1"] }

Codes == {"200", "500"}
Methods == {"GET", "POST"}
Hosts == {"api.example.com"}

\* ------------------------------------------------ float64 values (metrics)
\* A float64 is +Inf, or the rational w + f/Second with f of the sign of w.
PosInf == [inf |-> TRUE, w |-> 0, f |-> 0]

Float(w, f) == [inf |-> FALSE, w |-> w, f |-> f]

FloatZero == Float(0, 0)

\* Go integer division and remainder truncate toward zero.
Quot(a, b) == IF a >= 0 THEN a \div b ELSE -((-a) \div b)

Rem(a, b) == a - b * Quot(a, b)

FloatAdd(x, y) ==
  IF x.inf \/ y.inf THEN PosInf
  ELSE LET t == (x.w + y.w) * Second + x.f + y.f
       IN Float(Quot(t, Second), Rem(t, Second))

FloatNegative(x) == ~x.inf /\ (x.w < 0 \/ x.f < 0)

\* time.Duration.Seconds(): float64(d / Second) + float64(d % Second) / 1e9.
Seconds(d) == Float(Quot(d, Second), Rem(d, Second))

\* url.URL.String() for a URL with scheme, host, path and optional query.
String(u) ==
  u.Scheme \o "://" \o u.Host \o u.Path \o
    (IF u.RawQuery = "" THEN "" ELSE "?" \o u.RawQuery)

\* ------------------------------------------------------------- instruments
\* Label schemas of the three vectors.
requestLatencyLabels == <<"verb", "url">>

deprecatedRequestLatencyLabels == <<"verb", "url">>

requestResultLabels == <<"code", "method", "host">>

\* Exported names of the five instruments, in declaration order.
Instruments ==
  << "rest_client_request_duration_seconds",
     "rest_client_request_latency_seconds",
     "rest_client_requests_total",
     "rest_client_exec_plugin_ttl_seconds",
     "rest_client_exec_plugin_certificate_rotation_age" >>

InstrumentNames == { Instruments[i] : i \in 1..Len(Instruments) }

\* A histogram with no samples.
EmptyHistogram == [count |-> 0, sum |-> FloatZero, last |-> FloatZero]

\* Histogram.Observe(v): one more sample of value v.
HistogramObserve(h, v) ==
  [count |-> h.count + 1, sum |-> FloatAdd(h.sum, v), last |-> v]

\* MetricVec.WithLabelValues(lvs...): the series lvs, created on first use.
WithLabelValues(vec, lvs, zero) ==
  IF lvs \in DOMAIN vec THEN vec
  ELSE [k \in (DOMAIN vec) \cup {lvs} |-> IF k = lvs THEN zero ELSE vec[k]]

\* WithLabelValues panics when the number of values is not that of the labels.
LabelsMatch(labels, lvs) == Len(lvs) = Len(labels)

\* HistogramVec.WithLabelValues(lvs...).Observe(v)
HistogramVecObserve(vec, lvs, v) ==
  LET w == WithLabelValues(vec, lvs, EmptyHistogram)
  IN [w EXCEPT ![lvs] = HistogramObserve(@, v)]

\* CounterVec.WithLabelValues(lvs...).Inc()
CounterVecInc(vec, lvs) ==
  LET w == WithLabelValues(vec, lvs, 0)
  IN [w EXCEPT ![lvs] = @ + 1]

\* Reading a series that may be absent.
HistogramCount(vec, lvs) == IF lvs \in DOMAIN vec THEN vec[lvs].count ELSE 0

CounterValue(vec, lvs) == IF lvs \in DOMAIN vec THEN vec[lvs] ELSE 0

\* ------------------------------------------------------------------- state
VARIABLES
  requestLatency,            \* HistogramVec: <<verb, url>> -> histogram
  deprecatedRequestLatency,  \* HistogramVec: <<verb, url>> -> histogram
  requestResult,             \* CounterVec: <<code, method, host>> -> count
  execPluginCertTTL,         \* Gauge: a float64
  execPluginCertRotation,    \* Histogram
  registry,                  \* legacyregistry: instrument name -> registrations
  hooks,                     \* client library's active instrumentation
  registerCalls,             \* calls of metrics.Register that took effect
  pcInit,                    \* next statement of init (Len(InitOrder)+1: returned)
  initRuns,                  \* executions of the init body started
  panicked,                  \* the process died in a panic
  history,                   \* adapter calls made, in invocation order
  pc,                        \* per goroutine: position inside an adapter
  pend,                      \* per goroutine: the call it is executing
  overlapped                 \* a call was invoked while another was executing

vars ==
  << requestLatency, deprecatedRequestLatency, requestResult, execPluginCertTTL,
     execPluginCertRotation, registry, hooks, registerCalls, pcInit, initRuns,
     panicked, history, pc, pend, overlapped >>

instrumentVars ==
  << requestLatency, deprecatedRequestLatency, requestResult, execPluginCertTTL,
     execPluginCertRotation >>

initVars == << registry, hooks, registerCalls, pcInit, initRuns >>

threadVars == << pc, pend, overlapped >>

Threads == 1..NumThreads

NoCall == [op |-> "none", args |-> <<>>]

Call(op, lvs, d, nil) == [op |-> op, lvs |-> lvs, d |-> d, nil |-> nil]

\* ------------------------------------------------------------ external API
\* Gauge.Set(v): the gauge holds v.
GaugeSet(g, v) == v

\* legacyregistry.MustRegister(c) succeeds exactly when the name is new.
CanRegister(reg, name) == reg[name] = 0

MustRegister(reg, name) == [reg EXCEPT ![name] = @ + 1]

\* --------------------------------------------------------------------- init
\* Mutants of InitOrder: the gauge is never initialised; the adapters are
\* handed over first; the adapters are handed over before the last registration.
InitOrder_noSet ==
  << [stmt |-> "MustRegister", arg |-> Instruments[1]],
     [stmt |-> "MustRegister", arg |-> Instruments[2]],
     [stmt |-> "MustRegister", arg |-> Instruments[3]],
     [stmt |-> "MustRegister", arg |-> Instruments[4]],
     [stmt |-> "MustRegister", arg |-> Instruments[5]],
     [stmt |-> "Register", arg |-> "adapters"] >>

InitOrder_registerFirst ==
  << [stmt |-> "Set", arg |-> "execPluginCertTTL"],
     [stmt |-> "Register", arg |-> "adapters"],
     [stmt |-> "MustRegister", arg |-> Instruments[1]],
     [stmt |-> "MustRegister", arg |-> Instruments[2]],
     [stmt |-> "MustRegister", arg |-> Instruments[3]],
     [stmt |-> "MustRegister", arg |-> Instruments[4]],
     [stmt |-> "MustRegister", arg |-> Instruments[5]] >>

InitOrder_hooksEarly ==
  << [stmt |-> "Set", arg |-> "execPluginCertTTL"],
     [stmt |-> "MustRegister", arg |-> Instruments[1]],
     [stmt |-> "MustRegister", arg |-> Instruments[2]],
     [stmt |-> "MustRegister", arg |-> Instruments[3]],
     [stmt |-> "MustRegister", arg |-> Instruments[4]],
     [stmt |-> "Register", arg |-> "adapters"],
     [stmt |-> "MustRegister", arg |-> Instruments[5]] >>

\* The value init gives the TTL gauge.
InitTTL == PosInf

\* The statements of init, in program order.
InitOrder ==
  << [stmt |-> "Set", arg |-> "execPluginCertTTL"],
     [stmt |-> "MustRegister", arg |-> Instruments[1]],
     [stmt |-> "MustRegister", arg |-> Instruments[2]],
     [stmt |-> "MustRegister", arg |-> Instruments[3]],
     [stmt |-> "MustRegister", arg |-> Instruments[4]],
     [stmt |-> "MustRegister", arg |-> Instruments[5]],
     [stmt |-> "Register", arg |-> "adapters"] >>

InitReturned == pcInit = Len(InitOrder) + 1

\* Statements of kind stmt (and argument arg) that the current run of init
\* has executed.
InitExecuted(stmt, arg) ==
  \E i \in 1..(pcInit - 1) : InitOrder[i].stmt = stmt /\ InitOrder[i].arg = arg

\* Mutant of latencyAdapterFields: both fields reference the primary vector.
latencyAdapterFields_sameVec == [m |-> "requestLatency", dm |-> "requestLatency"]

\* The fields of the latencyAdapter handed to the client library.
latencyAdapterFields == [m |-> "requestLatency", dm |-> "deprecatedRequestLatency"]

Init ==
  /\ requestLatency = <<>>
  /\ deprecatedRequestLatency = <<>>
  /\ requestResult = <<>>
  /\ execPluginCertTTL = FloatZero
  /\ execPluginCertRotation = EmptyHistogram
  /\ registry = [n \in InstrumentNames |-> 0]
  /\ hooks = "noop"
  /\ registerCalls = 0
  /\ pcInit = 1
  /\ initRuns = 1
  /\ panicked = FALSE
  /\ history = <<>>
  /\ pc = [t \in Threads |-> "idle"]
  /\ pend = [t \in Threads |-> NoCall]
  /\ overlapped = FALSE

\* One statement of init.
init ==
  /\ ~panicked
  /\ pcInit \in 1..Len(InitOrder)
  /\ LET s == InitOrder[pcInit]
     IN \/ /\ s.stmt = "Set"
           /\ execPluginCertTTL' = GaugeSet(execPluginCertTTL, InitTTL)
           /\ pcInit' = pcInit + 1
           /\ UNCHANGED << registry, hooks, registerCalls, panicked >>
        \/ /\ s.stmt = "MustRegister"
           /\ IF CanRegister(registry, s.arg)
              THEN /\ registry' = MustRegister(registry, s.arg)
                   /\ pcInit' = pcInit + 1
                   /\ UNCHANGED panicked
              ELSE /\ panicked' = TRUE
                   /\ UNCHANGED << registry, pcInit >>
           /\ UNCHANGED << execPluginCertTTL, hooks, registerCalls >>
        \/ /\ s.stmt = "Register"
           /\ hooks' = s.arg
           /\ registerCalls' = registerCalls + 1
           /\ pcInit' = pcInit + 1
           /\ UNCHANGED << execPluginCertTTL, registry, panicked >>
  /\ UNCHANGED << requestLatency, deprecatedRequestLatency, requestResult,
                  execPluginCertRotation, initRuns, history, threadVars >>

\* A second execution of the init body is attempted.
reinit ==
  /\ ~panicked
  /\ InitReturned
  /\ initRuns < MaxInits
  /\ initRuns' = initRuns + 1
  /\ pcInit' = 1
  /\ UNCHANGED << instrumentVars, registry, hooks, registerCalls, panicked,
                  history, threadVars >>

\* ----------------------------------------------------------------- adapters
\* The two latency vectors, by the name of the variable that holds them.
HistVecs ==
  [requestLatency |-> requestLatency,
   deprecatedRequestLatency |-> deprecatedRequestLatency]

HistVecLabels ==
  [requestLatency |-> requestLatencyLabels,
   deprecatedRequestLatency |-> deprecatedRequestLatencyLabels]

\* Mutant of latencyLabelValues: the url label value is left out.
latencyLabelValues_verbOnly(verb, u) == << verb >>

\* latencyAdapter.Observe: the label values and the value of both lines.
latencyLabelValues(verb, u) == << verb, String(u) >>

latencyValue(latency) == Seconds(latency)

\* Mutant of ObservePrimary: the series is replaced by a fresh one on each call.
ObservePrimary_fresh(hv, verb, u, latency) ==
  [hv EXCEPT ![latencyAdapterFields.m] =
     [k \in (DOMAIN @) \cup {latencyLabelValues(verb, u)} |->
        IF k = latencyLabelValues(verb, u)
        THEN HistogramObserve(EmptyHistogram, latencyValue(latency))
        ELSE @[k]]]

\* l.m.WithLabelValues(verb, u.String()).Observe(latency.Seconds())
ObservePrimary(hv, verb, u, latency) ==
  [hv EXCEPT ![latencyAdapterFields.m] =
     HistogramVecObserve(@, latencyLabelValues(verb, u), latencyValue(latency))]

\* l.dm.WithLabelValues(verb, u.String()).Observe(latency.Seconds())
ObserveDeprecated(hv, verb, u, latency) ==
  [hv EXCEPT ![latencyAdapterFields.dm] =
     HistogramVecObserve(@, latencyLabelValues(verb, u), latencyValue(latency))]

\* Mutant of resultLabelValues: code and method are swapped.
resultLabelValues_swapped(code, method, host) == << method, code, host >>

\* resultAdapter.Increment: the label values.
resultLabelValues(code, method, host) == << code, method, host >>

\* r.m.WithLabelValues(code, method, host).Inc()
IncrementResult(vec, code, method, host) ==
  CounterVecInc(vec, resultLabelValues(code, method, host))

\* A *time.Duration: nil, or a pointer to v.
Nil == [nil |-> TRUE, v |-> 0]

Ptr(d) == [nil |-> FALSE, v |-> d]

TTLs == {Nil} \cup { Ptr(d) : d \in Durations }

\* Mutants of ttlValue: nil reads as zero; a negative TTL is clamped to zero.
ttlValue_nilZero(ttl) == IF ttl.nil THEN FloatZero ELSE Seconds(ttl.v)

ttlValue_clamped(ttl) ==
  IF ttl.nil THEN PosInf ELSE IF ttl.v < 0 THEN FloatZero ELSE Seconds(ttl.v)

\* ttlAdapter.Set: the value given to the gauge.
ttlValue(ttl) == IF ttl.nil THEN PosInf ELSE Seconds(ttl.v)

\* Mutant of ObserveRotation: the duration is recorded without .Seconds().
ObserveRotation_raw(h, d) == HistogramObserve(h, Float(d, 0))

\* rotationAdapter.Observe: r.m.Observe(d.Seconds())
ObserveRotation(h, d) == HistogramObserve(h, Seconds(d))

\* The client library invokes the hooks it was given.
CanCall(max) == hooks = "adapters" /\ ~panicked /\ Len(history) < max

latencyAdapter_Observe(verb, u, latency) ==
  /\ CanCall(MaxCalls)
  /\ history' = Append(history, Call("Observe", << verb, String(u) >>, latency, FALSE))
  /\ LET lvs == latencyLabelValues(verb, u)
         ok1 == LabelsMatch(HistVecLabels[latencyAdapterFields.m], lvs)
         hv1 == IF ok1 THEN ObservePrimary(HistVecs, verb, u, latency) ELSE HistVecs
         ok2 == ok1 /\ LabelsMatch(HistVecLabels[latencyAdapterFields.dm], lvs)
         hv2 == IF ok2 THEN ObserveDeprecated(hv1, verb, u, latency) ELSE hv1
     IN /\ requestLatency' = hv2.requestLatency
        /\ deprecatedRequestLatency' = hv2.deprecatedRequestLatency
        /\ panicked' = ~ok2
  /\ UNCHANGED << requestResult, execPluginCertTTL, execPluginCertRotation,
                  initVars, threadVars >>

resultAdapter_Increment(code, method, host) ==
  /\ CanCall(MaxCalls)
  /\ history' = Append(history, Call("Increment", << code, method, host >>, 0, FALSE))
  /\ LET ok == LabelsMatch(requestResultLabels, resultLabelValues(code, method, host))
     IN /\ requestResult' =
             IF ok THEN IncrementResult(requestResult, code, method, host)
             ELSE requestResult
        /\ panicked' = ~ok
  /\ UNCHANGED << requestLatency, deprecatedRequestLatency, execPluginCertTTL,
                  execPluginCertRotation, initVars, threadVars >>

ttlAdapter_Set(ttl) ==
  /\ CanCall(MaxCalls)
  /\ history' = Append(history, Call("Set", <<>>, ttl.v, ttl.nil))
  /\ execPluginCertTTL' = GaugeSet(execPluginCertTTL, ttlValue(ttl))
  /\ UNCHANGED << requestLatency, deprecatedRequestLatency, requestResult,
                  execPluginCertRotation, initVars, panicked, threadVars >>

rotationAdapter_Observe(d) ==
  /\ CanCall(MaxCalls)
  /\ history' = Append(history, Call("Rotation", <<>>, d, FALSE))
  /\ execPluginCertRotation' = ObserveRotation(execPluginCertRotation, d)
  /\ UNCHANGED << requestLatency, deprecatedRequestLatency, requestResult,
                  execPluginCertTTL, initVars, panicked, threadVars >>

AdapterCall ==
  \/ \E verb \in Verbs, u \in URLs, latency \in Latencies :
       latencyAdapter_Observe(verb, u, latency)
  \/ \E code \in Codes, method \in Methods, host \in Hosts :
       resultAdapter_Increment(code, method, host)
  \/ \E ttl \in TTLs : ttlAdapter_Set(ttl)
  \/ \E d \in Durations : rotationAdapter_Observe(d)

Next == init \/ AdapterCall

Spec == Init /\ [][Next]_vars

NextReinit == init \/ reinit \/ (Len(history) < MaxReinitCalls /\ AdapterCall)

SpecReinit == Init /\ [][NextReinit]_vars

\* ------------------------------------------------ adapters, concurrently
\* Inputs of the concurrent specification.
ConcVerbs == {"GET"}

ConcLatencies == { 2 * Second + Second \div 4 }

ConcCodes == {"200", "500"}

ConcTTLs == { Nil, Ptr(5 * Minute), Ptr(-(Second + Second \div 2)) }

ConcRotations == { 5 * Minute, 2 * Second + Second \div 4 }

\* The first line of each adapter method.
FirstLine ==
  [Observe |-> "l123", Increment |-> "l132", Set |-> "l140", Rotation |-> "l152"]

\* Goroutine t enters an adapter method.
Invoke(t, op, args, logged) ==
  /\ CanCall(MaxConcCalls)
  /\ pc[t] = "idle"
  /\ pc' = [pc EXCEPT ![t] = FirstLine[op]]
  /\ pend' = [pend EXCEPT ![t] = [op |-> op, args |-> args]]
  /\ history' = Append(history, logged)
  /\ overlapped' = (overlapped \/ \E o \in Threads : pc[o] # "idle")
  /\ UNCHANGED << instrumentVars, initVars, panicked >>

InvokeObserve(t, verb, u, latency) ==
  Invoke(t, "Observe", << verb, u, latency >>,
         Call("Observe", << verb, String(u) >>, latency, FALSE))

InvokeIncrement(t, code, method, host) ==
  Invoke(t, "Increment", << code, method, host >>,
         Call("Increment", << code, method, host >>, 0, FALSE))

InvokeSet(t, ttl) ==
  Invoke(t, "Set", << ttl >>, Call("Set", <<>>, ttl.v, ttl.nil))

InvokeRotation(t, d) ==
  Invoke(t, "Rotation", << d >>, Call("Rotation", <<>>, d, FALSE))

\* latencyAdapter.Observe, first statement.
Line123(t) ==
  /\ ~panicked
  /\ pc[t] = "l123"
  /\ LET a == pend[t].args
         ok == LabelsMatch(HistVecLabels[latencyAdapterFields.m],
                           latencyLabelValues(a[1], a[2]))
         hv == IF ok THEN ObservePrimary(HistVecs, a[1], a[2], a[3]) ELSE HistVecs
     IN /\ requestLatency' = hv.requestLatency
        /\ deprecatedRequestLatency' = hv.deprecatedRequestLatency
        /\ panicked' = ~ok
  /\ pc' = [pc EXCEPT ![t] = "l124"]
  /\ UNCHANGED << requestResult, execPluginCertTTL, execPluginCertRotation,
                  initVars, history, pend, overlapped >>

\* latencyAdapter.Observe, second statement and return.
Line124(t) ==
  /\ ~panicked
  /\ pc[t] = "l124"
  /\ LET a == pend[t].args
         ok == LabelsMatch(HistVecLabels[latencyAdapterFields.dm],
                           latencyLabelValues(a[1], a[2]))
         hv == IF ok THEN ObserveDeprecated(HistVecs, a[1], a[2], a[3]) ELSE HistVecs
     IN /\ requestLatency' = hv.requestLatency
        /\ deprecatedRequestLatency' = hv.deprecatedRequestLatency
        /\ panicked' = ~ok
  /\ pc' = [pc EXCEPT ![t] = "idle"]
  /\ pend' = [pend EXCEPT ![t] = NoCall]
  /\ UNCHANGED << requestResult, execPluginCertTTL, execPluginCertRotation,
                  initVars, history, overlapped >>

\* resultAdapter.Increment, its statement and return.
Line132(t) ==
  /\ ~panicked
  /\ pc[t] = "l132"
  /\ LET a == pend[t].args
         ok == LabelsMatch(requestResultLabels, resultLabelValues(a[1], a[2], a[3]))
     IN /\ requestResult' =
             IF ok THEN IncrementResult(requestResult, a[1], a[2], a[3])
             ELSE requestResult
        /\ panicked' = ~ok
  /\ pc' = [pc EXCEPT ![t] = "idle"]
  /\ pend' = [pend EXCEPT ![t] = NoCall]
  /\ UNCHANGED << requestLatency, deprecatedRequestLatency, execPluginCertTTL,
                  execPluginCertRotation, initVars, history, overlapped >>

\* ttlAdapter.Set, its if statement and return.
Line140(t) ==
  /\ ~panicked
  /\ pc[t] = "l140"
  /\ execPluginCertTTL' = GaugeSet(execPluginCertTTL, ttlValue(pend[t].args[1]))
  /\ pc' = [pc EXCEPT ![t] = "idle"]
  /\ pend' = [pend EXCEPT ![t] = NoCall]
  /\ UNCHANGED << requestLatency, deprecatedRequestLatency, requestResult,
                  execPluginCertRotation, initVars, panicked, history, overlapped >>

\* rotationAdapter.Observe, its statement and return.
Line152(t) ==
  /\ ~panicked
  /\ pc[t] = "l152"
  /\ execPluginCertRotation' = ObserveRotation(execPluginCertRotation, pend[t].args[1])
  /\ pc' = [pc EXCEPT ![t] = "idle"]
  /\ pend' = [pend EXCEPT ![t] = NoCall]
  /\ UNCHANGED << requestLatency, deprecatedRequestLatency, requestResult,
                  execPluginCertTTL, initVars, panicked, history, overlapped >>

ThreadStep(t) ==
  \/ \E verb \in ConcVerbs, u \in URLs, latency \in ConcLatencies :
       InvokeObserve(t, verb, u, latency)
  \/ \E code \in ConcCodes, method \in {"GET"}, host \in Hosts :
       InvokeIncrement(t, code, method, host)
  \/ \E ttl \in ConcTTLs : InvokeSet(t, ttl)
  \/ \E d \in ConcRotations : InvokeRotation(t, d)
  \/ Line123(t)
  \/ Line124(t)
  \/ Line132(t)
  \/ Line140(t)
  \/ Line152(t)

NextConc == init \/ \E t \in Threads : ThreadStep(t)

SpecConc == Init /\ [][NextConc]_vars

AllIdle == \A t \in Threads : pc[t] = "idle"

\* =================================================================== claims
\* Reading the history of calls.
Calls(op) == { i \in 1..Len(history) : history[i].op = op }

CountCalls(op, lvs) ==
  Cardinality({ i \in Calls(op) : history[i].lvs = lvs })

\* The call a step makes, if it makes one.
MakesCall(op) ==
  /\ Len(history') = Len(history) + 1
  /\ history'[Len(history')].op = op

NewCall == history'[Len(history')]

LastCall == history[Len(history)]

\* The latest Set call made (when there is one).
LastSet == history[CHOOSE i \in Calls("Set") : \A j \in Calls("Set") : j <= i]

LatencyKeys == { << verb, String(u) >> : verb \in Verbs, u \in URLs }

ResultKeys == { << c, m, h >> : c \in Codes, m \in Methods, h \in Hosts }

AllRegistered == \A n \in InstrumentNames : registry[n] = 1

\* Total of the durations of the Rotation calls among the first n calls.
RECURSIVE RotationTicks(_)
RotationTicks(n) ==
  IF n = 0 THEN 0
  ELSE RotationTicks(n - 1) + (IF history[n].op = "Rotation" THEN history[n].d ELSE 0)

\* C1: one latencyAdapter.Observe(verb, u, d) with d >= 0 adds exactly one
\* observation to the series (verb, u.String()) of the primary and of the
\* deprecated histogram, and the value recorded in each is d.Seconds().
C1_ObserveBothHistograms ==
  [][ (MakesCall("Observe") /\ NewCall.d >= 0) =>
        LET k == NewCall.lvs
            v == Float(Quot(NewCall.d, Second), NewCall.d - Second * Quot(NewCall.d, Second))
        IN /\ HistogramCount(requestLatency', k) = HistogramCount(requestLatency, k) + 1
           /\ HistogramCount(deprecatedRequestLatency', k) =
                HistogramCount(deprecatedRequestLatency, k) + 1
           /\ requestLatency'[k].last = v
           /\ deprecatedRequestLatency'[k].last = v
           /\ (NewCall.d = 5 * Minute => v = Float(300, 0)) ]_vars

\* C1 witness: a positive latency was observed and its series holds one sample
\* in both histograms.
C1_Witness ==
  \E i \in Calls("Observe") :
    /\ history[i].d > 0
    /\ HistogramCount(requestLatency, history[i].lvs) = 1
    /\ HistogramCount(deprecatedRequestLatency, history[i].lvs) = 1
    /\ requestLatency[history[i].lvs].last = Float(2, Second \div 4)

\* C2: one resultAdapter.Increment(code, method, host) adds 1 to the counter of
\* that tuple and leaves every other tuple's counter unchanged, so each series
\* always equals the number of Increment calls made with its tuple.
C2_IncrementStep ==
  MakesCall("Increment") =>
    /\ CounterValue(requestResult', NewCall.lvs) =
         CounterValue(requestResult, NewCall.lvs) + 1
    /\ \A k \in ((DOMAIN requestResult) \cup (DOMAIN requestResult') \cup ResultKeys)
               \ {NewCall.lvs} :
         /\ (k \in DOMAIN requestResult') = (k \in DOMAIN requestResult)
         /\ CounterValue(requestResult', k) = CounterValue(requestResult, k)

C2_CounterIsCallCount ==
  /\ \A k \in ResultKeys : CounterValue(requestResult, k) = CountCalls("Increment", k)
  /\ \A k \in DOMAIN requestResult : CountCalls("Increment", k) > 0

C2_IncrementExactlyOne == [][C2_IncrementStep]_vars /\ []C2_CounterIsCallCount

\* C2 witness: three Increment("200","GET","api.example.com") calls; that
\* series reads 3 and no other series exists.
C2_Witness ==
  /\ CountCalls("Increment", << "200", "GET", "api.example.com" >>) = 3
  /\ DOMAIN requestResult = { << "200", "GET", "api.example.com" >> }
  /\ requestResult[<< "200", "GET", "api.example.com" >>] = 3

\* C3: once init has returned and until the first ttlAdapter.Set call, the
\* TTL gauge holds +Inf.
C3_GaugeDefaultsToInf ==
  (InitReturned /\ Calls("Set") = {}) => execPluginCertTTL = PosInf

\* C3 witness: init has returned, the gauge is registered, other adapters have
\* been called, no Set call was made.
C3_Witness ==
  /\ InitReturned
  /\ registry["rest_client_exec_plugin_ttl_seconds"] = 1
  /\ Calls("Set") = {}
  /\ Len(history) > 0
  /\ execPluginCertTTL = PosInf

\* C4: ttlAdapter.Set(nil) leaves the gauge at +Inf whatever it held before.
C4_SetNilIsInf ==
  [][ (MakesCall("Set") /\ NewCall.nil) => execPluginCertTTL' = PosInf ]_vars

\* C4 witness: Set(nil) was called when the gauge held a negative value.
C4_Witness ==
  /\ Len(history) >= 2
  /\ LastCall.op = "Set" /\ LastCall.nil
  /\ history[Len(history) - 1].op = "Set"
  /\ ~history[Len(history) - 1].nil
  /\ history[Len(history) - 1].d < 0
  /\ execPluginCertTTL = PosInf

\* C5: after Set(&d) the gauge holds d.Seconds(), negative when d is negative,
\* and the gauge is always the value of the latest Set call alone.
C5_SetOverwrites ==
  Calls("Set") # {} =>
    /\ LastSet.nil => execPluginCertTTL = PosInf
    /\ ~LastSet.nil =>
         /\ ~execPluginCertTTL.inf
         /\ execPluginCertTTL.w * Second + execPluginCertTTL.f = LastSet.d
         /\ execPluginCertTTL = Seconds(LastSet.d)
         /\ (LastSet.d < 0 => FloatNegative(execPluginCertTTL))
         /\ (LastSet.d = 5 * Minute => execPluginCertTTL = Float(300, 0))

\* C5 witness: Set(nil) then Set(5 minutes); the gauge reads 300.
C5_Witness ==
  /\ Len(history) = 2
  /\ history[1].op = "Set" /\ history[1].nil
  /\ history[2].op = "Set" /\ ~history[2].nil /\ history[2].d = 5 * Minute
  /\ execPluginCertTTL = Float(300, 0)

\* C6: one rotationAdapter.Observe(d) adds 1 to the count of the rotation
\* histogram and d.Seconds() to its sum; after n calls the count is n and the
\* sum is the sum of the observed seconds.
C6_RotationStep ==
  MakesCall("Rotation") =>
    /\ execPluginCertRotation'.count = execPluginCertRotation.count + 1
    /\ execPluginCertRotation'.sum =
         FloatAdd(execPluginCertRotation.sum, Seconds(NewCall.d))
    /\ execPluginCertRotation'.last = Seconds(NewCall.d)

C6_RotationTotals ==
  /\ execPluginCertRotation.count = Cardinality(Calls("Rotation"))
  /\ ~execPluginCertRotation.sum.inf
  /\ execPluginCertRotation.sum.w * Second + execPluginCertRotation.sum.f =
       RotationTicks(Len(history))

C6_RotationCountAndSum == [][C6_RotationStep]_vars /\ []C6_RotationTotals

\* C6 witness: rotations of -1.5 s and 2.25 s were observed; count 2, sum 0.75.
C6_Witness ==
  /\ Cardinality(Calls("Rotation")) = 2
  /\ \E i, j \in Calls("Rotation") :
       history[i].d < 0 /\ history[j].d = 2 * Second + Second \div 4
  /\ execPluginCertRotation.count = 2
  /\ execPluginCertRotation.sum = Float(0, Second \div 4 + Second \div 2)

\* The first MustRegister statement of init.
FirstMustRegister ==
  CHOOSE i \in 1..Len(InitOrder) :
    /\ InitOrder[i].stmt = "MustRegister"
    /\ \A j \in 1..(i - 1) : InitOrder[j].stmt # "MustRegister"

\* C7: every instrument is registered at most once, the first init registers
\* all five, and a second execution of init panics at its first MustRegister:
\* it reaches no later statement, in particular not a second metrics.Register.
C7_RegisteredOnce ==
  /\ \A n \in InstrumentNames : registry[n] <= 1
  /\ registerCalls <= 1
  /\ (InitReturned => (initRuns = 1 /\ AllRegistered /\ registerCalls = 1))
  /\ (initRuns >= 2 => (AllRegistered /\ pcInit <= FirstMustRegister))
  /\ (panicked => (initRuns = 2 /\ pcInit = FirstMustRegister))

\* C7 witness: the second init has panicked at its first MustRegister.
C7_Witness ==
  /\ initRuns = 2
  /\ panicked
  /\ InitOrder[pcInit].stmt = "MustRegister"
  /\ AllRegistered
  /\ registerCalls = 1

\* C8: under any interleaving of adapter calls by several goroutines, once all
\* calls have returned no update is lost: each counter and histogram series
\* count equals the number of calls for it, and the gauge holds the value of
\* one of the Set calls made, or +Inf when none was made.
C8_NoLostUpdate ==
  /\ ~panicked
  /\ AllIdle =>
       /\ \A k \in LatencyKeys :
            /\ HistogramCount(requestLatency, k) = CountCalls("Observe", k)
            /\ HistogramCount(deprecatedRequestLatency, k) = CountCalls("Observe", k)
       /\ \A k \in ResultKeys : CounterValue(requestResult, k) = CountCalls("Increment", k)
       /\ execPluginCertRotation.count = Cardinality(Calls("Rotation"))
       /\ (InitReturned /\ Calls("Set") = {}) => execPluginCertTTL = PosInf
       /\ Calls("Set") # {} =>
            \E i \in Calls("Set") :
              execPluginCertTTL = IF history[i].nil THEN PosInf ELSE Seconds(history[i].d)

\* C8 witness: calls overlapped, all have returned, a Set call was made and
\* one latency series holds two samples in both histograms.
C8_Witness ==
  /\ overlapped
  /\ AllIdle
  /\ Len(history) = 3
  /\ Calls("Set") # {}
  /\ \E k \in LatencyKeys :
       /\ HistogramCount(requestLatency, k) = 2
       /\ HistogramCount(deprecatedRequestLatency, k) = 2

\* C9: latencyAdapter.Observe changes nothing but the series (verb, url) of the
\* two latency histograms and does not panic; an unseen (verb, url) creates
\* the series.
C9_ObserveFrame ==
  [][ MakesCall("Observe") =>
        LET k == NewCall.lvs
        IN /\ ~panicked'
           /\ requestResult' = requestResult
           /\ execPluginCertTTL' = execPluginCertTTL
           /\ execPluginCertRotation' = execPluginCertRotation
           /\ registry' = registry /\ hooks' = hooks
           /\ DOMAIN requestLatency' = (DOMAIN requestLatency) \cup {k}
           /\ DOMAIN deprecatedRequestLatency' = (DOMAIN deprecatedRequestLatency) \cup {k}
           /\ \A o \in (DOMAIN requestLatency) \ {k} :
                requestLatency'[o] = requestLatency[o]
           /\ \A o \in (DOMAIN deprecatedRequestLatency) \ {k} :
                deprecatedRequestLatency'[o] = deprecatedRequestLatency[o] ]_vars

\* C9 witness: a second (verb, url) series was created by Observe while the
\* counter and the rotation histogram hold data.
C9_Witness ==
  /\ ~panicked
  /\ Len(history) = 3
  /\ LastCall.op = "Observe"
  /\ Cardinality(DOMAIN requestLatency) = 2
  /\ Cardinality(DOMAIN deprecatedRequestLatency) = 2
  /\ DOMAIN requestResult # {}

\* C10: whenever the client library holds the adapters, or an adapter has been
\* called, all five instruments are registered and init has set the gauge.
C10_HooksAfterRegistration ==
  (hooks = "adapters" \/ Len(history) > 0) =>
    /\ AllRegistered
    /\ InitExecuted("Set", "execPluginCertTTL")

\* C10 witness: an adapter was called through the hooks.
C10_Witness ==
  /\ hooks = "adapters"
  /\ Len(history) > 0
  /\ AllRegistered
  /\ registerCalls = 1

====
